---- MODULE Spec2Model ----
(***************************************************************************)
(* Alert detection and management of the system monitor backend            *)
(* (backend/app/alerts.py): threshold evaluation, lookup-before-create     *)
(* deduplication, acknowledgement and the active-alert listing.            *)
(*                                                                         *)
(* Percentages are modelled as integers 0..100.  datetime.now() is a       *)
(* logical clock that advances by one at every read.  The alerts table is  *)
(* a sequence of rows; the autoincrement primary key of a row is its       *)
(* position (rows are never deleted).                                      *)
(*                                                                         *)
(* The scheduler (backend/app/scheduler.py) is a record of its state and   *)
(* job store; a run of its job is a program counter over the steps of      *)
(* collect_and_save_metrics, and a session is named by the operation that *)
(* opened it.  The executor's max_instances and shutdown(wait=True) are    *)
(* the library defaults the calls in scheduler.py leave in force.          *)
(***************************************************************************)
EXTENDS Integers, Sequences, FiniteSets, TLC

VARIABLES
    alerts,     \* the "alerts" table: sequence of Alert rows
    clock,      \* last value returned by datetime.now()
    op,         \* name of the last operation executed
    arg,        \* its input (metrics record / alert id / single reading)
    outcomes,   \* per metric kind: what check_metric did in the last call
    ret,        \* its return value (a list, or <<TRUE>> / <<FALSE>>)
    written,    \* per alert id: value and severity last written by check_metric
    trace,      \* scenario runs: the cpu readings fed so far with their outcomes
    procs,      \* concurrent check_metric calls: what each holds between its
                \* query and its commit
    snapshots,  \* the "metrics_snapshots" table: sequence of rows
    scheduler,  \* the BackgroundScheduler: its state and its job store
    instances,  \* the executor's runs of collect_and_save_metrics
    request,    \* the API request being handled
    sessions    \* owners of the SessionLocal() sessions that are open

vars == <<alerts, clock, op, arg, outcomes, ret, written, trace, procs,
          snapshots, scheduler, instances, request, sessions>>

\* the state of the scheduler, of its job runs and of the API requests
sysvars == <<snapshots, scheduler, instances, request, sessions>>

\* the state of the calls that overlap in time
racevars == <<procs>>

----------------------------------------------------------------------------
(* Bounds of the model *)

MaxAlerts == 2      \* rows the alerts table may hold in a run of Spec
MaxClock == 3       \* reads of datetime.now() in a run of Spec
MaxTrace == 5       \* readings fed in a run of SpecScenario
MaxSysClock == 3    \* reads of datetime.now() in a run of SpecSystem
MaxRaceClock == 3   \* reads of datetime.now() in a run of SpecRace or SpecTickAck

----------------------------------------------------------------------------
(* Threshold table and message formatting *)

None == "None"

Kinds == {"cpu", "memory", "disk", "battery"}

Severities == {"warning", "critical"}

THRESHOLDS ==
    [ cpu     |-> [warning |-> 70, critical |-> 85],
      memory  |-> [warning |-> 75, critical |-> 90],
      disk    |-> [warning |-> 80, critical |-> 95],
      battery |-> [warning |-> 20, critical |-> 10] ]

\* the higher_is_worse argument check_and_create_alerts passes for each kind
higher_is_worse_of(metric_type) == metric_type # "battery"

\* the comparisons with the boundary excluded on the higher-is-worse side
severity_strict_high(value, thresholds, higher_is_worse) ==
    IF higher_is_worse
    THEN IF value > thresholds.critical THEN "critical"
         ELSE IF value > thresholds.warning THEN "warning"
         ELSE None
    ELSE IF value <= thresholds.critical THEN "critical"
         ELSE IF value <= thresholds.warning THEN "warning"
         ELSE None

\* the comparisons with the boundary excluded on the lower-is-worse side
severity_strict_low(value, thresholds, higher_is_worse) ==
    IF higher_is_worse
    THEN IF value >= thresholds.critical THEN "critical"
         ELSE IF value >= thresholds.warning THEN "warning"
         ELSE None
    ELSE IF value < thresholds.critical THEN "critical"
         ELSE IF value < thresholds.warning THEN "warning"
         ELSE None

\* check_metric, first part: the severity crossed by value, or None
severity(value, thresholds, higher_is_worse) ==
    IF higher_is_worse
    THEN IF value >= thresholds.critical THEN "critical"
         ELSE IF value >= thresholds.warning THEN "warning"
         ELSE None
    ELSE IF value <= thresholds.critical THEN "critical"
         ELSE IF value <= thresholds.warning THEN "warning"
         ELSE None

\* check_metric, first part: the threshold level that goes with severity
threshold_crossed(value, thresholds, higher_is_worse) ==
    IF higher_is_worse
    THEN IF value >= thresholds.critical THEN thresholds.critical
         ELSE IF value >= thresholds.warning THEN thresholds.warning
         ELSE 0
    ELSE IF value <= thresholds.critical THEN thresholds.critical
         ELSE IF value <= thresholds.warning THEN thresholds.warning
         ELSE 0

\* the f-string of generate_alert_message, kept as its parts
generate_alert_message(metric_type, value, threshold, sev) ==
    LET metric_names == [ cpu |-> "CPU usage", memory |-> "Memory usage",
                          disk |-> "Disk usage", battery |-> "Battery level" ]
        upper == [ warning |-> "WARNING", critical |-> "CRITICAL" ]
    IN  [ severity_emoji |-> IF sev = "warning" THEN "warning-sign" ELSE "red-circle",
          severity_upper |-> upper[sev],
          metric_name    |-> metric_names[metric_type],
          wording        |-> IF metric_type = "battery" THEN "is low at" ELSE "is high at",
          value          |-> value,
          threshold      |-> threshold ]

----------------------------------------------------------------------------
(* The alerts table *)

\* Alert(...) as inserted by check_metric; id is assigned by the table
Alert(id, timestamp, metric_type, metric_value, threshold_value, sev, message) ==
    [ id |-> id, timestamp |-> timestamp, metric_type |-> metric_type,
      metric_value |-> metric_value, threshold_value |-> threshold_value,
      severity |-> sev, message |-> message, acknowledged |-> FALSE ]

\* smallest element of a non-empty set of row positions
MinOf(S) == CHOOSE i \in S : \A j \in S : i <= j

\* the lookup with the acknowledged flag inverted
existing_alert_acked(tbl, metric_type, sev) ==
    LET hits == { i \in 1..Len(tbl) : /\ tbl[i].metric_type = metric_type
                                      /\ tbl[i].severity = sev
                                      /\ tbl[i].acknowledged = TRUE }
    IN  IF hits = {} THEN 0 ELSE MinOf(hits)

\* the lookup without the acknowledged filter
existing_alert_any(tbl, metric_type, sev) ==
    LET hits == { i \in 1..Len(tbl) : /\ tbl[i].metric_type = metric_type
                                      /\ tbl[i].severity = sev }
    IN  IF hits = {} THEN 0 ELSE MinOf(hits)

\* the lookup without the severity filter
existing_alert_any_severity(tbl, metric_type, sev) ==
    LET hits == { i \in 1..Len(tbl) : /\ tbl[i].metric_type = metric_type
                                      /\ tbl[i].acknowledged = FALSE }
    IN  IF hits = {} THEN 0 ELSE MinOf(hits)

\* db.query(Alert).filter(metric_type, severity, acknowledged == False).first():
\* the position of the matching row, 0 when there is none
existing_alert(tbl, metric_type, sev) ==
    LET hits == { i \in 1..Len(tbl) : /\ tbl[i].metric_type = metric_type
                                      /\ tbl[i].severity = sev
                                      /\ tbl[i].acknowledged = FALSE }
    IN  IF hits = {} THEN 0 ELSE MinOf(hits)

NoOutcome == [ outcome |-> "NotEvaluated", severity |-> None, id |-> 0, value |-> 0 ]

NoOutcomes == [ k \in Kinds |-> NoOutcome ]

\* check_metric that retires the live alerts of the kind when the reading is
\* back below every threshold
check_metric_autoclear(metric_type, value, thresholds, higher_is_worse, tbl, now) ==
    LET sev == severity(value, thresholds, higher_is_worse)
        thr == threshold_crossed(value, thresholds, higher_is_worse)
        ex  == existing_alert(tbl, metric_type, sev)
        new == Alert(Len(tbl) + 1, now + 1, metric_type, value, thr, sev,
                     generate_alert_message(metric_type, value, thr, sev))
    IN  IF sev = None
        THEN [ alerts |-> [ i \in 1..Len(tbl) |->
                              IF tbl[i].metric_type = metric_type
                              THEN [ tbl[i] EXCEPT !.acknowledged = TRUE ]
                              ELSE tbl[i] ],
               clock |-> now, returned |-> <<>>,
               out |-> [ outcome |-> "NoChange", severity |-> None, id |-> 0, value |-> value ] ]
        ELSE IF ex # 0
        THEN [ alerts |-> [ tbl EXCEPT ![ex].metric_value = value,
                                       ![ex].timestamp = now + 1 ],
               clock |-> now + 1, returned |-> <<>>,
               out |-> [ outcome |-> "Updated", severity |-> sev, id |-> ex, value |-> value ] ]
        ELSE [ alerts |-> Append(tbl, new),
               clock |-> now + 1, returned |-> <<new>>,
               out |-> [ outcome |-> "Created", severity |-> sev, id |-> new.id, value |-> value ] ]

\* check_metric whose update refreshes the timestamp but not the value
check_metric_stale(metric_type, value, thresholds, higher_is_worse, tbl, now) ==
    LET sev == severity(value, thresholds, higher_is_worse)
        thr == threshold_crossed(value, thresholds, higher_is_worse)
        ex  == existing_alert(tbl, metric_type, sev)
        new == Alert(Len(tbl) + 1, now + 1, metric_type, value, thr, sev,
                     generate_alert_message(metric_type, value, thr, sev))
    IN  IF sev = None
        THEN [ alerts |-> tbl, clock |-> now, returned |-> <<>>,
               out |-> [ outcome |-> "NoChange", severity |-> None, id |-> 0, value |-> value ] ]
        ELSE IF ex # 0
        THEN [ alerts |-> [ tbl EXCEPT ![ex].timestamp = now + 1 ],
               clock |-> now + 1, returned |-> <<>>,
               out |-> [ outcome |-> "Updated", severity |-> sev, id |-> ex, value |-> value ] ]
        ELSE [ alerts |-> Append(tbl, new),
               clock |-> now + 1, returned |-> <<new>>,
               out |-> [ outcome |-> "Created", severity |-> sev, id |-> new.id, value |-> value ] ]

\* check_metric whose update also rewrites the message for the new value
check_metric_remessage(metric_type, value, thresholds, higher_is_worse, tbl, now) ==
    LET sev == severity(value, thresholds, higher_is_worse)
        thr == threshold_crossed(value, thresholds, higher_is_worse)
        ex  == existing_alert(tbl, metric_type, sev)
        new == Alert(Len(tbl) + 1, now + 1, metric_type, value, thr, sev,
                     generate_alert_message(metric_type, value, thr, sev))
    IN  IF sev = None
        THEN [ alerts |-> tbl, clock |-> now, returned |-> <<>>,
               out |-> [ outcome |-> "NoChange", severity |-> None, id |-> 0, value |-> value ] ]
        ELSE IF ex # 0
        THEN [ alerts |-> [ tbl EXCEPT ![ex].metric_value = value,
                                       ![ex].timestamp = now + 1,
                                       ![ex].message =
                                           generate_alert_message(metric_type, value, thr, sev) ],
               clock |-> now + 1, returned |-> <<>>,
               out |-> [ outcome |-> "Updated", severity |-> sev, id |-> ex, value |-> value ] ]
        ELSE [ alerts |-> Append(tbl, new),
               clock |-> now + 1, returned |-> <<new>>,
               out |-> [ outcome |-> "Created", severity |-> sev, id |-> new.id, value |-> value ] ]

\* check_metric that returns the alert after an update as well
check_metric_returning_updated(metric_type, value, thresholds, higher_is_worse, tbl, now) ==
    LET sev == severity(value, thresholds, higher_is_worse)
        thr == threshold_crossed(value, thresholds, higher_is_worse)
        ex  == existing_alert(tbl, metric_type, sev)
        new == Alert(Len(tbl) + 1, now + 1, metric_type, value, thr, sev,
                     generate_alert_message(metric_type, value, thr, sev))
        upd == [ tbl EXCEPT ![ex].metric_value = value, ![ex].timestamp = now + 1 ]
    IN  IF sev = None
        THEN [ alerts |-> tbl, clock |-> now, returned |-> <<>>,
               out |-> [ outcome |-> "NoChange", severity |-> None, id |-> 0, value |-> value ] ]
        ELSE IF ex # 0
        THEN [ alerts |-> upd,
               clock |-> now + 1, returned |-> <<upd[ex]>>,
               out |-> [ outcome |-> "Updated", severity |-> sev, id |-> ex, value |-> value ] ]
        ELSE [ alerts |-> Append(tbl, new),
               clock |-> now + 1, returned |-> <<new>>,
               out |-> [ outcome |-> "Created", severity |-> sev, id |-> new.id, value |-> value ] ]

\* check_metric: the table and clock after the call, the Alert returned
\* (a list of zero or one rows) and the branch taken
check_metric(metric_type, value, thresholds, higher_is_worse, tbl, now) ==
    LET sev == severity(value, thresholds, higher_is_worse)
        thr == threshold_crossed(value, thresholds, higher_is_worse)
        ex  == existing_alert(tbl, metric_type, sev)
        new == Alert(Len(tbl) + 1, now + 1, metric_type, value, thr, sev,
                     generate_alert_message(metric_type, value, thr, sev))
    IN  IF sev = None
        THEN [ alerts |-> tbl, clock |-> now, returned |-> <<>>,
               out |-> [ outcome |-> "NoChange", severity |-> None, id |-> 0, value |-> value ] ]
        ELSE IF ex # 0
        THEN [ alerts |-> [ tbl EXCEPT ![ex].metric_value = value,
                                       ![ex].timestamp = now + 1 ],
               clock |-> now + 1, returned |-> <<>>,
               out |-> [ outcome |-> "Updated", severity |-> sev, id |-> ex, value |-> value ] ]
        ELSE [ alerts |-> Append(tbl, new),
               clock |-> now + 1, returned |-> <<new>>,
               out |-> [ outcome |-> "Created", severity |-> sev, id |-> new.id, value |-> value ] ]

\* check_metric up to and including its query: the severity crossed, its
\* threshold and the row the query returned (0: none)
check_metric_query(metric_type, value, thresholds, higher_is_worse, tbl) ==
    LET sev == severity(value, thresholds, higher_is_worse)
    IN  [ metric_type |-> metric_type, value |-> value, severity |-> sev,
          threshold_crossed |-> threshold_crossed(value, thresholds, higher_is_worse),
          existing |-> IF sev = None THEN 0 ELSE existing_alert(tbl, metric_type, sev) ]

\* the write made atomic with a second lookup at commit time
check_metric_write_atomic(q, tbl, now) ==
    LET ex  == existing_alert(tbl, q.metric_type, q.severity)
        new == Alert(Len(tbl) + 1, now + 1, q.metric_type, q.value,
                     q.threshold_crossed, q.severity,
                     generate_alert_message(q.metric_type, q.value,
                                            q.threshold_crossed, q.severity))
    IN  IF ex # 0
        THEN [ alerts |-> [ tbl EXCEPT ![ex].metric_value = q.value,
                                       ![ex].timestamp = now + 1 ],
               clock |-> now + 1, returned |-> <<>>,
               out |-> [ outcome |-> "Updated", severity |-> q.severity,
                         id |-> ex, value |-> q.value ] ]
        ELSE [ alerts |-> Append(tbl, new),
               clock |-> now + 1, returned |-> <<new>>,
               out |-> [ outcome |-> "Created", severity |-> q.severity,
                         id |-> new.id, value |-> q.value ] ]

\* check_metric after its query, on the table as it is at commit time: the
\* UPDATE on the row found sets metric_value and timestamp only (the columns
\* assigned), whatever that row has become; without a row found, the INSERT
check_metric_write(q, tbl, now) ==
    LET new == Alert(Len(tbl) + 1, now + 1, q.metric_type, q.value,
                     q.threshold_crossed, q.severity,
                     generate_alert_message(q.metric_type, q.value,
                                            q.threshold_crossed, q.severity))
    IN  IF q.existing # 0
        THEN [ alerts |-> [ tbl EXCEPT ![q.existing].metric_value = q.value,
                                       ![q.existing].timestamp = now + 1 ],
               clock |-> now + 1, returned |-> <<>>,
               out |-> [ outcome |-> "Updated", severity |-> q.severity,
                         id |-> q.existing, value |-> q.value ] ]
        ELSE [ alerts |-> Append(tbl, new),
               clock |-> now + 1, returned |-> <<new>>,
               out |-> [ outcome |-> "Created", severity |-> q.severity,
                         id |-> new.id, value |-> q.value ] ]

\* check_and_create_alerts without the is_plugged test
check_and_create_alerts_plugged(metrics, tbl, now) ==
    LET c == check_metric("cpu", metrics.cpu, THRESHOLDS["cpu"], TRUE, tbl, now)
        m == check_metric("memory", metrics.memory, THRESHOLDS["memory"], TRUE,
                          c.alerts, c.clock)
        d == check_metric("disk", metrics.disk, THRESHOLDS["disk"], TRUE,
                          m.alerts, m.clock)
        b == IF metrics.battery # <<>>
             THEN check_metric("battery", metrics.battery[1].percent,
                               THRESHOLDS["battery"], FALSE, d.alerts, d.clock)
             ELSE [ alerts |-> d.alerts, clock |-> d.clock, returned |-> <<>>,
                    out |-> NoOutcome ]
    IN  [ alerts     |-> b.alerts,
          clock      |-> b.clock,
          new_alerts |-> c.returned \o m.returned \o d.returned \o b.returned,
          outs       |-> [ cpu |-> c.out, memory |-> m.out, disk |-> d.out,
                           battery |-> b.out ] ]

\* check_and_create_alerts: cpu, memory, disk, then battery when present and
\* not plugged in; new_alerts collects the alerts check_metric returned
check_and_create_alerts(metrics, tbl, now) ==
    LET c == check_metric("cpu", metrics.cpu, THRESHOLDS["cpu"], TRUE, tbl, now)
        m == check_metric("memory", metrics.memory, THRESHOLDS["memory"], TRUE,
                          c.alerts, c.clock)
        d == check_metric("disk", metrics.disk, THRESHOLDS["disk"], TRUE,
                          m.alerts, m.clock)
        b == IF metrics.battery # <<>> /\ ~metrics.battery[1].is_plugged
             THEN check_metric("battery", metrics.battery[1].percent,
                               THRESHOLDS["battery"], FALSE, d.alerts, d.clock)
             ELSE [ alerts |-> d.alerts, clock |-> d.clock, returned |-> <<>>,
                    out |-> NoOutcome ]
    IN  [ alerts     |-> b.alerts,
          clock      |-> b.clock,
          new_alerts |-> c.returned \o m.returned \o d.returned \o b.returned,
          outs       |-> [ cpu |-> c.out, memory |-> m.out, disk |-> d.out,
                           battery |-> b.out ] ]

\* Alert.to_dict: the timestamp is rendered by isoformat()
to_dict(a) ==
    [ id |-> a.id, timestamp |-> <<"isoformat", a.timestamp>>,
      metric_type |-> a.metric_type, metric_value |-> a.metric_value,
      threshold_value |-> a.threshold_value, severity |-> a.severity,
      message |-> a.message, acknowledged |-> a.acknowledged ]

\* the ordering with the direction inverted (oldest first)
RECURSIVE order_by_timestamp_asc(_, _)
order_by_timestamp_asc(tbl, S) ==
    IF S = {} THEN <<>>
    ELSE LET top == CHOOSE i \in S : \A j \in S :
                        \/ tbl[i].timestamp < tbl[j].timestamp
                        \/ tbl[i].timestamp = tbl[j].timestamp /\ i <= j
         IN  <<tbl[top]>> \o order_by_timestamp_asc(tbl, S \ {top})

\* ORDER BY timestamp DESC over the rows at positions S (equal timestamps in
\* rowid order)
RECURSIVE order_by_timestamp_desc(_, _)
order_by_timestamp_desc(tbl, S) ==
    IF S = {} THEN <<>>
    ELSE LET top == CHOOSE i \in S : \A j \in S :
                        \/ tbl[i].timestamp > tbl[j].timestamp
                        \/ tbl[i].timestamp = tbl[j].timestamp /\ i <= j
         IN  <<tbl[top]>> \o order_by_timestamp_desc(tbl, S \ {top})

\* get_active_alerts: the unacknowledged rows, newest first, as dicts
get_active_alerts(tbl) ==
    LET rows == order_by_timestamp_desc(tbl,
                    { i \in 1..Len(tbl) : tbl[i].acknowledged = FALSE })
    IN  [ i \in 1..Len(rows) |-> to_dict(rows[i]) ]

\* acknowledge_alert with the final return replaced by return True
acknowledge_alert_true(alert_id, tbl) ==
    IF alert_id \in 1..Len(tbl)
    THEN [ alerts |-> [ tbl EXCEPT ![alert_id].acknowledged = TRUE ], returned |-> TRUE ]
    ELSE [ alerts |-> tbl, returned |-> TRUE ]

\* acknowledge_alert: the table after the call and the bool returned
acknowledge_alert(alert_id, tbl) ==
    IF alert_id \in 1..Len(tbl)
    THEN [ alerts |-> [ tbl EXCEPT ![alert_id].acknowledged = TRUE ], returned |-> TRUE ]
    ELSE [ alerts |-> tbl, returned |-> FALSE ]

----------------------------------------------------------------------------
(* The snapshot pipeline and the scheduler *)

\* get_all_metrics: the sampled readings, stamped datetime.now().isoformat()
get_all_metrics(readings, now) ==
    [ timestamp |-> <<"isoformat", now + 1>>, cpu |-> readings.cpu,
      memory |-> readings.memory, disk |-> readings.disk,
      battery |-> readings.battery ]

\* MetricsSnapshot(...) as both collect_and_save_metrics and save_snapshot build
\* it: the timestamp parsed back by fromisoformat, battery columns None without
\* a battery; id is assigned by the table
MetricsSnapshot(id, metrics) ==
    [ id |-> id,
      timestamp |-> metrics.timestamp[2],
      cpu_usage_percent |-> metrics.cpu,
      memory_usage_percent |-> metrics.memory,
      disk_usage_percent |-> metrics.disk,
      battery_percent |-> IF metrics.battery # <<>>
                          THEN <<metrics.battery[1].percent>> ELSE <<>>,
      battery_is_plugged |-> IF metrics.battery # <<>>
                             THEN <<metrics.battery[1].is_plugged>> ELSE <<>> ]

\* db.add(snapshot); db.commit()
add_snapshot(snaps, metrics) == Append(snaps, MetricsSnapshot(Len(snaps) + 1, metrics))

\* the success path of collect_and_save_metrics after sampling: the snapshot is
\* added and committed, then check_and_create_alerts runs on the same record
collect_and_save_metrics(metrics, snaps, tbl, now) ==
    LET r == check_and_create_alerts(metrics, tbl, now)
    IN  [ snapshots |-> add_snapshot(snaps, metrics), alerts |-> r.alerts,
          clock |-> r.clock, outs |-> r.outs ]

\* the handler running the pipeline of the scheduled job
save_snapshot_evaluating(metrics, snaps, tbl, now) ==
    collect_and_save_metrics(metrics, snaps, tbl, now)

\* the body of the POST /metrics/snapshot handler after sampling: it adds and
\* commits the snapshot and returns it; it makes no call into alerts.py
save_snapshot(metrics, snaps, tbl, now) ==
    [ snapshots |-> add_snapshot(snaps, metrics), alerts |-> tbl,
      clock |-> now, outs |-> NoOutcomes ]

\* the failing evaluation as one transaction: what the earlier kinds wrote is
\* undone with the failure
check_and_create_alerts_failing_atomic(metrics, tbl, now, at) ==
    LET c == check_metric("cpu", metrics.cpu, THRESHOLDS["cpu"], TRUE, tbl, now)
        m == check_metric("memory", metrics.memory, THRESHOLDS["memory"], TRUE,
                          c.alerts, c.clock)
        d == check_metric("disk", metrics.disk, THRESHOLDS["disk"], TRUE,
                          m.alerts, m.clock)
    IN  [ alerts |-> tbl,
          clock  |-> now,
          outs   |-> [ cpu     |-> IF at = "cpu" THEN NoOutcome ELSE c.out,
                       memory  |-> IF at \in {"cpu", "memory"} THEN NoOutcome ELSE m.out,
                       disk    |-> IF at = "battery" THEN d.out ELSE NoOutcome,
                       battery |-> NoOutcome ] ]

\* check_and_create_alerts when the check_metric call for kind `at` raises:
\* the calls for the kinds before it have committed, nothing is returned
check_and_create_alerts_failing(metrics, tbl, now, at) ==
    LET c == check_metric("cpu", metrics.cpu, THRESHOLDS["cpu"], TRUE, tbl, now)
        m == check_metric("memory", metrics.memory, THRESHOLDS["memory"], TRUE,
                          c.alerts, c.clock)
        d == check_metric("disk", metrics.disk, THRESHOLDS["disk"], TRUE,
                          m.alerts, m.clock)
        done == CASE at = "cpu"     -> [ alerts |-> tbl, clock |-> now ]
                  [] at = "memory"  -> [ alerts |-> c.alerts, clock |-> c.clock ]
                  [] at = "disk"    -> [ alerts |-> m.alerts, clock |-> m.clock ]
                  [] at = "battery" -> [ alerts |-> d.alerts, clock |-> d.clock ]
    IN  [ alerts |-> done.alerts,
          clock  |-> done.clock,
          outs   |-> [ cpu     |-> IF at = "cpu" THEN NoOutcome ELSE c.out,
                       memory  |-> IF at \in {"cpu", "memory"} THEN NoOutcome ELSE m.out,
                       disk    |-> IF at = "battery" THEN d.out ELSE NoOutcome,
                       battery |-> NoOutcome ] ]

\* the kinds check_and_create_alerts calls check_metric for
evaluated_kinds(metrics) ==
    {"cpu", "memory", "disk"} \cup
    (IF metrics.battery # <<>> /\ ~metrics.battery[1].is_plugged THEN {"battery"} ELSE {})

\* the control flow of collect_and_save_metrics with the except clause missing
\* the alert evaluation
next_pc_uncaught(pc, ok) ==
    CASE pc = "begin"    -> "sample"
      [] pc = "sample"   -> IF ok THEN "persist" ELSE "except"
      [] pc = "persist"  -> IF ok THEN "evaluate" ELSE "except"
      [] pc = "evaluate" -> IF ok THEN "log" ELSE "raised"
      [] pc = "log"      -> "finally"
      [] pc = "except"   -> "finally"
      [] pc = "finally"  -> "idle"

\* the control flow of collect_and_save_metrics with db.close() on the success
\* path only
next_pc_leak(pc, ok) ==
    CASE pc = "begin"    -> "sample"
      [] pc = "sample"   -> IF ok THEN "persist" ELSE "except"
      [] pc = "persist"  -> IF ok THEN "evaluate" ELSE "except"
      [] pc = "evaluate" -> IF ok THEN "log" ELSE "except"
      [] pc = "log"      -> "finally"
      [] pc = "except"   -> "idle"
      [] pc = "finally"  -> "idle"

\* the control flow of collect_and_save_metrics with the alert evaluation
\* ahead of the snapshot commit
next_pc_evaluate_first(pc, ok) ==
    CASE pc = "begin"    -> "sample"
      [] pc = "sample"   -> IF ok THEN "evaluate" ELSE "except"
      [] pc = "evaluate" -> IF ok THEN "persist" ELSE "except"
      [] pc = "persist"  -> IF ok THEN "log" ELSE "except"
      [] pc = "log"      -> "finally"
      [] pc = "except"   -> "finally"
      [] pc = "finally"  -> "idle"

\* the control flow of collect_and_save_metrics: SessionLocal(), then inside
\* try the sampling, the snapshot commit, the alert evaluation and the log
\* line; any exception of these goes to except (rollback); finally closes
next_pc(pc, ok) ==
    CASE pc = "begin"    -> "sample"
      [] pc = "sample"   -> IF ok THEN "persist" ELSE "except"
      [] pc = "persist"  -> IF ok THEN "evaluate" ELSE "except"
      [] pc = "evaluate" -> IF ok THEN "log" ELSE "except"
      [] pc = "log"      -> "finally"
      [] pc = "except"   -> "finally"
      [] pc = "finally"  -> "idle"

\* scheduler.add_job(..., id=id, replace_existing=True) on the job store: a job
\* with that id is replaced, otherwise the job is added
add_job(jobs, id) ==
    IF \E j \in 1..Len(jobs) : jobs[j] = id THEN jobs ELSE Append(jobs, id)

\* start_scheduler: add_job, then scheduler.start(), which raises
\* SchedulerAlreadyRunningError unless the scheduler is stopped
start_scheduler(sched) ==
    IF sched.state = "stopped"
    THEN [ scheduler |-> [ sched EXCEPT !.jobs = add_job(sched.jobs, "metrics_collector"),
                                        !.state = "running" ],
           raised |-> None ]
    ELSE [ scheduler |-> [ sched EXCEPT !.jobs = add_job(sched.jobs, "metrics_collector") ],
           raised |-> "SchedulerAlreadyRunningError" ]

\* instances of a job allowed to run at once: add_job is called without
\* max_instances, which leaves the scheduler's default
max_instances == 1

\* the executor accepting a run whatever the number of running instances
can_submit_unlimited(running) == TRUE

\* the executor's test before it runs a due job: fewer running instances of the
\* job than max_instances, else the run is skipped
can_submit(running) == running < max_instances

\* shutdown that does not wait for the running jobs (wait=False)
shutdown_complete_nowait(insts) == TRUE

\* scheduler.shutdown() with its default wait=True returns once the executor
\* has no running job left
shutdown_complete(insts) == \A i \in DOMAIN insts : insts[i].pc = "idle"

----------------------------------------------------------------------------
(* Inputs *)

\* metrics["battery"]: None (the empty list here) or a dict
Battery(percent, is_plugged) == <<[ percent |-> percent, is_plugged |-> is_plugged ]>>

Percent == 0..100

\* the part of the record get_all_metrics returns that the alert engine reads
Metrics(cpu, memory, disk, battery) ==
    [ cpu |-> cpu, memory |-> memory, disk |-> disk, battery |-> battery ]

\* readings sampled in runs of Spec: below, inside and above the bands (disk
\* stays below its thresholds there; SpecEval covers every reading of every kind)
CpuReadings == {60, 75, 78, 88}
MemoryReadings == {50, 80}
DiskReadings == {50}
BatteryReadings == {<<>>, Battery(5, TRUE), Battery(5, FALSE)}

MetricsRecords ==
    { Metrics(c, m, d, b) : c \in CpuReadings, m \in MemoryReadings,
                            d \in DiskReadings, b \in BatteryReadings }

\* cpu readings of scenario runs (memory and disk normal, no battery)
ScenarioReadings == {60, 65, 75, 88}

\* battery states of SpecEval: absent, or any percent, plugged in or not
EvalBatteries == {<<>>} \cup { Battery(p, g) : p \in Percent, g \in BOOLEAN }

\* the threads that may run check_metric: the scheduler job and one more caller
Workers == {"tick", "manual"}

\* a thread outside check_metric
IdleProc ==
    [ pc |-> "idle", metric_type |-> None, value |-> 0, severity |-> None,
      threshold_crossed |-> 0, existing |-> 0 ]

\* (metric_type, value) pairs evaluated in runs of SpecRace and SpecTickAck
RaceReadings == { <<"cpu", 60>>, <<"cpu", 75>>, <<"cpu", 78>>, <<"cpu", 88>>,
                  <<"memory", 80>> }

\* worker threads of the scheduler's executor that could run the job
Slots == {1, 2}

\* what get_all_metrics returns when nothing was sampled yet
NoMetrics ==
    [ timestamp |-> <<"isoformat", 0>>, cpu |-> 0, memory |-> 0, disk |-> 0,
      battery |-> <<>> ]

\* an executor thread not running the job; done lists the statements of the
\* try block that a run has completed
IdleInstance ==
    [ pc |-> "idle", metrics |-> NoMetrics, txn |-> "none", outcome |-> "none",
      done |-> <<>> ]

\* no API request in flight
IdleRequest == [ pc |-> "idle", handler |-> None, outcome |-> "none", listed |-> <<>> ]

\* the handlers that take their session from Depends(get_db)
Handlers == {"save_snapshot", "active_alerts", "ack_alert"}

\* readings sampled in runs of SpecSystem: all normal, or cpu critical
SysRecords == { Metrics(60, 50, 50, <<>>), Metrics(88, 50, 50, <<>>) }

\* value and severity last written to each alert by a Created/Updated outcome
Written(outs, old, n) ==
    [ i \in 1..n |->
        IF \E k \in Kinds : outs[k].id = i /\ outs[k].outcome \in {"Created", "Updated"}
        THEN LET k == CHOOSE k \in Kinds : outs[k].id = i
                                        /\ outs[k].outcome \in {"Created", "Updated"}
             IN  [ metric_value |-> outs[k].value, severity |-> outs[k].severity ]
        ELSE IF i \in DOMAIN old THEN old[i]
        ELSE [ metric_value |-> 0, severity |-> None ] ]

\* a process freshly started: empty tables, scheduler constructed but not
\* started, nothing in flight
SysInit ==
    /\ snapshots = <<>>
    /\ scheduler = [ state |-> "stopped", jobs |-> <<>>, shutdown |-> "no" ]
    /\ instances = [ i \in Slots |-> IdleInstance ]
    /\ request = IdleRequest
    /\ sessions = {}

----------------------------------------------------------------------------
(* Operations *)

\* an empty alerts table, nothing called yet
Init ==
    /\ alerts = <<>>
    /\ clock = 0
    /\ op = "init"
    /\ arg = <<>>
    /\ outcomes = NoOutcomes
    /\ ret = <<>>
    /\ written = <<>>
    /\ trace = <<>>
    /\ procs = [ w \in Workers |-> IdleProc ]
    /\ SysInit

\* one serialized call of check_and_create_alerts on a sampled record
Evaluate(metrics) ==
    LET r == check_and_create_alerts(metrics, alerts, clock)
    IN  /\ alerts' = r.alerts
        /\ clock' = r.clock
        /\ op' = "check_and_create_alerts"
        /\ arg' = metrics
        /\ outcomes' = r.outs
        /\ ret' = r.new_alerts
        /\ written' = Written(r.outs, written, Len(r.alerts))
        /\ UNCHANGED racevars
        /\ UNCHANGED sysvars

CheckAndCreateAlerts ==
    \E metrics \in MetricsRecords :
        /\ Evaluate(metrics)
        /\ clock' <= MaxClock
        /\ Len(alerts') <= MaxAlerts
        /\ UNCHANGED trace

\* alert_id ranges over the ids in the table and one id that is not there
AcknowledgeAlert ==
    \E alert_id \in 1..(Len(alerts) + 1) :
        LET r == acknowledge_alert(alert_id, alerts)
        IN  /\ alerts' = r.alerts
            /\ op' = "acknowledge_alert"
            /\ arg' = alert_id
            /\ outcomes' = NoOutcomes
            /\ ret' = <<r.returned>>
            /\ UNCHANGED <<clock, written, trace>>
            /\ UNCHANGED racevars
            /\ UNCHANGED sysvars

GetActiveAlerts ==
    /\ op' = "get_active_alerts"
    /\ arg' = <<>>
    /\ outcomes' = NoOutcomes
    /\ ret' = get_active_alerts(alerts)
    /\ UNCHANGED <<alerts, clock, written, trace>>
    /\ UNCHANGED racevars
    /\ UNCHANGED sysvars

Next ==
    \/ CheckAndCreateAlerts
    \/ AcknowledgeAlert
    \/ GetActiveAlerts

\* serialized (non-overlapping) evaluations, acknowledgements and listings
Spec == Init /\ [][Next]_vars

----------------------------------------------------------------------------
(* SpecScenario: a run of cpu readings from an empty table, no acknowledgement *)

ScenarioTick ==
    \E v \in ScenarioReadings :
        /\ Len(trace) < MaxTrace
        /\ Evaluate(Metrics(v, 50, 50, <<>>))
        /\ trace' = Append(trace, [ value |-> v, outcome |-> outcomes'["cpu"].outcome,
                                    severity |-> outcomes'["cpu"].severity,
                                    id |-> outcomes'["cpu"].id ])

NextScenario == ScenarioTick

SpecScenario == Init /\ [][NextScenario]_vars

----------------------------------------------------------------------------
(* SpecEval: one evaluation of any reading, on the empty table or on a table *)
(* that already holds one unacknowledged alert                               *)

\* the table left by one check_metric call on the empty table
TableAfter(metric_type, value) ==
    check_metric(metric_type, value, THRESHOLDS[metric_type],
                 higher_is_worse_of(metric_type), <<>>, 0)

InitEval ==
    /\ \E k \in Kinds, s \in {None} \cup Severities :
          LET r == IF s = None THEN [ alerts |-> <<>>, clock |-> 0 ]
                   ELSE TableAfter(k, THRESHOLDS[k][s])
          IN  /\ alerts = r.alerts
              /\ clock = r.clock
              /\ written = [ i \in 1..Len(r.alerts) |->
                               [ metric_value |-> r.alerts[i].metric_value,
                                 severity |-> r.alerts[i].severity ] ]
    /\ op = "init"
    /\ arg = <<>>
    /\ outcomes = NoOutcomes
    /\ ret = <<>>
    /\ trace = <<>>
    /\ procs = [ w \in Workers |-> IdleProc ]
    /\ SysInit

\* check_metric on one reading, with the arguments check_and_create_alerts passes
EvalCheckMetric ==
    \E k \in Kinds, v \in Percent :
        LET r == check_metric(k, v, THRESHOLDS[k], higher_is_worse_of(k), alerts, clock)
            outs == [ NoOutcomes EXCEPT ![k] = r.out ]
        IN  /\ op = "init"
            /\ alerts' = r.alerts
            /\ clock' = r.clock
            /\ op' = "check_metric"
            /\ arg' = <<k, v>>
            /\ outcomes' = outs
            /\ ret' = r.returned
            /\ written' = Written(outs, written, Len(r.alerts))
            /\ UNCHANGED trace
            /\ UNCHANGED racevars
            /\ UNCHANGED sysvars

\* check_and_create_alerts on a record whose battery state is arbitrary
EvalBatteryRecord ==
    \E b \in EvalBatteries :
        /\ op = "init"
        /\ Evaluate(Metrics(50, 50, 50, b))
        /\ UNCHANGED trace

NextEval ==
    \/ EvalCheckMetric
    \/ EvalBatteryRecord

SpecEval == InitEval /\ [][NextEval]_vars

----------------------------------------------------------------------------
(* Properties *)

\* positions of the unacknowledged rows of a kind and severity
Live(tbl, k, s) ==
    { i \in 1..Len(tbl) : /\ tbl[i].metric_type = k
                          /\ tbl[i].severity = s
                          /\ tbl[i].acknowledged = FALSE }

\* positions of the unacknowledged rows of a kind, whatever the severity
LiveOfKind(tbl, k) == Live(tbl, k, "warning") \cup Live(tbl, k, "critical")

\* positions of the rows of a kind
RowsOfKind(tbl, k) == { i \in 1..Len(tbl) : tbl[i].metric_type = k }

\* the step is a call that ran check_metric
IsEvaluation(name) == name \in {"check_and_create_alerts", "check_metric"}

\* C1: after any sequence of serialized check_and_create_alerts and
\* acknowledge_alert calls from an empty table, every (metric_type, severity)
\* pair has at most one unacknowledged alert.
C1_OneLivePerKindSeverity ==
    \A k \in Kinds, s \in Severities : Cardinality(Live(alerts, k, s)) <= 1

\* an alert was acknowledged, its successor created and then refreshed
C1_Witness ==
    /\ op = "check_and_create_alerts"
    /\ outcomes["cpu"].outcome = "Updated"
    /\ \E i \in 1..Len(alerts) : /\ alerts[i].metric_type = "cpu"
                                 /\ alerts[i].severity = outcomes["cpu"].severity
                                 /\ alerts[i].acknowledged
    /\ Cardinality(Live(alerts, "cpu", outcomes["cpu"].severity)) = 1

Touched(old, new) ==
    { i \in 1..Len(new) : i > Len(old) \/ new[i] # old[i] }

\* the outcome o reports severity s (None: NoChange) and nothing else
ReportsOnly(o, s) ==
    IF s = None
    THEN o.outcome = "NoChange" /\ o.severity = None
    ELSE o.outcome \in {"Created", "Updated"} /\ o.severity = s

BatteryRows(tbl) == SelectSeq(tbl, LAMBDA a : a.metric_type = "battery")

\* C5: a record whose battery is absent or plugged in, at any percent, never
\* creates or updates a battery alert: the battery rows are unchanged by that
\* check_and_create_alerts call.
C5_PluggedOrAbsentNeverAlerts ==
    [][ ( /\ op' = "check_and_create_alerts"
          /\ \/ arg'.battery = <<>>
             \/ arg'.battery[1].is_plugged )
        => /\ BatteryRows(alerts') = BatteryRows(alerts)
           /\ outcomes'["battery"].outcome = "NotEvaluated"
           /\ \A j \in 1..Len(ret') : ret'[j].metric_type # "battery" ]_vars

\* a plugged-in battery below the critical level was sampled while a battery
\* alert was live
C5_Witness ==
    /\ op = "check_and_create_alerts"
    /\ arg.battery # <<>>
    /\ arg.battery[1].is_plugged
    /\ arg.battery[1].percent <= 10
    /\ LiveOfKind(alerts, "battery") # {}

\* positions of the acknowledged rows of a kind and severity
Retired(tbl, k, s) ==
    { i \in 1..Len(tbl) : /\ tbl[i].metric_type = k
                          /\ tbl[i].severity = s
                          /\ tbl[i].acknowledged }

\* C6: once the unacknowledged (kind, severity) alert has been acknowledged,
\* the next evaluation crossing the same (kind, severity) is Created: a new row
\* with a new id and acknowledged = false; the acknowledged alert keeps all its
\* fields and is never the target of an Updated outcome.
C6_CreatedAgainAfterAcknowledge ==
    [][ IsEvaluation(op') =>
          \A k \in Kinds :
            LET o == outcomes'[k]
            IN  /\ ( /\ o.severity \in Severities
                     /\ Retired(alerts, k, o.severity) # {}
                     /\ Live(alerts, k, o.severity) = {} )
                   => /\ o.outcome = "Created"
                      /\ o.id > Len(alerts) /\ o.id <= Len(alerts')
                      /\ o.id \notin Retired(alerts, k, o.severity)
                      /\ alerts'[o.id].id = o.id
                      /\ alerts'[o.id].acknowledged = FALSE
                /\ o.outcome = "Updated" => ~alerts[o.id].acknowledged
                /\ \A i \in 1..Len(alerts) : alerts[i].acknowledged => alerts'[i] = alerts[i] ]_vars

\* a crossing right after the acknowledgement of the alert of that kind and
\* severity created a second row, the acknowledged one still in the table
C6_Witness ==
    /\ op = "check_and_create_alerts"
    /\ outcomes["cpu"].outcome = "Created"
    /\ outcomes["cpu"].id = 2
    /\ alerts[1].acknowledged
    /\ alerts[1].metric_type = "cpu"
    /\ alerts[1].severity = alerts[2].severity
    /\ alerts[1].metric_value # alerts[2].metric_value
    /\ ~alerts[2].acknowledged

\* C7: with an unacknowledged warning alert of a kind and no unacknowledged
\* critical one, an evaluation of that kind crossing into critical creates a
\* critical alert and leaves the warning alert unacknowledged and unmodified:
\* a live warning and a live critical alert of the kind exist together.
C7_EscalationKeepsWarning ==
    [][ IsEvaluation(op') =>
          \A k \in Kinds :
            ( /\ outcomes'[k].severity = "critical"
              /\ Live(alerts, k, "warning") # {}
              /\ Live(alerts, k, "critical") = {} )
            => /\ outcomes'[k].outcome = "Created"
               /\ alerts'[outcomes'[k].id].severity = "critical"
               /\ alerts'[outcomes'[k].id].metric_type = k
               /\ \A i \in Live(alerts, k, "warning") : alerts'[i] = alerts[i]
               /\ Live(alerts', k, "warning") = Live(alerts, k, "warning")
               /\ Live(alerts', k, "critical") = {outcomes'[k].id} ]_vars

\* a cpu reading above the critical level was evaluated while a cpu warning
\* alert was live
C7_Witness ==
    /\ op = "check_and_create_alerts"
    /\ outcomes["cpu"].outcome = "Created"
    /\ outcomes["cpu"].severity = "critical"
    /\ \E i \in Live(alerts, "cpu", "warning") : i < outcomes["cpu"].id

\* C8 as stated: a metric kind never has more than one unacknowledged alert,
\* counting the alerts of all severities.
C8_OneLivePerKind ==
    \A k \in Kinds : Cardinality(LiveOfKind(alerts, k)) <= 1

\* C8, amended: a metric kind has at most one unacknowledged alert of each
\* severity, so at most two unacknowledged alerts, of different severities.
C8_LiveAlertsOfKindDifferInSeverity ==
    \A k \in Kinds :
        /\ Cardinality(LiveOfKind(alerts, k)) <= Cardinality(Severities)
        /\ \A i, j \in LiveOfKind(alerts, k) :
              alerts[i].severity = alerts[j].severity => i = j

\* two unacknowledged alerts of one kind
C8_Witness ==
    \E k \in Kinds : Cardinality(LiveOfKind(alerts, k)) = 2

\* the first n readings of the scenario run
Readings(n) == [ i \in 1..n |-> trace[i].value ]

\* the outcomes of the first n readings, with their severities
Outcomes(n) == [ i \in 1..n |-> <<trace[i].outcome, trace[i].severity>> ]

\* C9: from an empty table, without acknowledgement, the cpu readings
\* 60, 75, 88, 88, 65 give NoChange, Created(warning), Created(critical),
\* Updated(critical), NoChange; after the fifth reading the warning alert of
\* step 2 is still unacknowledged with the value of step 2.
C9_Scenario ==
    ( Len(trace) >= 5 /\ Readings(5) = <<60, 75, 88, 88, 65>> )
    => /\ Outcomes(5) = << <<"NoChange", None>>, <<"Created", "warning">>,
                          <<"Created", "critical">>, <<"Updated", "critical">>,
                          <<"NoChange", None>> >>
       /\ trace[4].id = trace[3].id
       /\ trace[3].id # trace[2].id
       /\ Len(trace) = 5 =>
            /\ Len(alerts) = 2
            /\ alerts[trace[2].id].acknowledged = FALSE
            /\ alerts[trace[2].id].severity = "warning"
            /\ alerts[trace[2].id].metric_value = 75
            /\ alerts[trace[2].id].timestamp < alerts[trace[3].id].timestamp
            /\ alerts[trace[3].id].metric_value = 88

\* the five readings of the scenario have been fed
C9_Witness ==
    /\ Len(trace) = 5
    /\ Readings(5) = <<60, 75, 88, 88, 65>>
    /\ op = "check_and_create_alerts"

\* C10: after serialized evaluations and acknowledgements, get_active_alerts
\* returns exactly the alerts with acknowledged = false, each once, newest
\* timestamp first, each with the metric_value and severity last written by a
\* Created/Updated outcome for that alert.
C10_ActiveAlertsListing ==
    op = "get_active_alerts" =>
        /\ { ret[i].id : i \in 1..Len(ret) }
             = { i \in 1..Len(alerts) : alerts[i].acknowledged = FALSE }
        /\ \A i, j \in 1..Len(ret) : ret[i].id = ret[j].id => i = j
        /\ \A i, j \in 1..Len(ret) :
              i < j => alerts[ret[i].id].timestamp >= alerts[ret[j].id].timestamp
        /\ \A i \in 1..Len(ret) :
              /\ ret[i].acknowledged = FALSE
              /\ ret[i].metric_value = written[ret[i].id].metric_value
              /\ ret[i].severity = written[ret[i].id].severity
              /\ ret[i].metric_type = alerts[ret[i].id].metric_type

\* the listing puts a refreshed older alert ahead of a newer one, showing the
\* refreshed value
C10_Witness ==
    /\ op = "get_active_alerts"
    /\ Len(ret) = 2
    /\ ret[1].id < ret[2].id
    /\ ret[1].metric_value # ret[1].message.value

\* C11: a check_metric call that finds no crossed severity (NoChange) performs
\* no store operation: every row and every field of the alerts table is the
\* same after the call, and nothing is returned.
C11_NoChangeTouchesNothing ==
    [][ IsEvaluation(op') =>
          /\ \A k \in Kinds :
                outcomes'[k].outcome = "NoChange" =>
                  /\ Touched(alerts, alerts') \cap RowsOfKind(alerts', k) = {}
                  /\ \A j \in 1..Len(ret') : ret'[j].metric_type # k
          /\ (\A k \in Kinds : outcomes'[k].outcome \in {"NoChange", "NotEvaluated"})
                => /\ alerts' = alerts
                   /\ clock' = clock
                   /\ written' = written
                   /\ ret' = <<>> ]_vars

\* a cpu reading just below the warning level was evaluated while a cpu alert
\* was live
C11_Witness ==
    /\ op = "check_metric"
    /\ arg = <<"cpu", 69>>
    /\ outcomes["cpu"].outcome = "NoChange"
    /\ LiveOfKind(alerts, "cpu") # {}

\* C20: acknowledge_alert(id) returns false and leaves the table unchanged when
\* no alert has that id; otherwise it returns true, sets exactly that alert's
\* acknowledged flag and changes no other row or field (nothing at all when
\* the alert was acknowledged already).
C20_AcknowledgeOnlyThatAlert ==
    [][ op' = "acknowledge_alert" =>
          IF \A i \in 1..Len(alerts) : alerts[i].id # arg'
          THEN ret' = <<FALSE>> /\ alerts' = alerts
          ELSE /\ ret' = <<TRUE>>
               /\ Len(alerts') = Len(alerts)
               /\ \A i \in 1..Len(alerts) :
                     IF alerts[i].id = arg'
                     THEN /\ alerts'[i] = [ alerts[i] EXCEPT !.acknowledged = TRUE ]
                          /\ alerts[i].acknowledged => alerts'[i] = alerts[i]
                     ELSE alerts'[i] = alerts[i] ]_vars

\* an unknown id was acknowledged on a table holding a live and an
\* acknowledged alert
C20_Witness ==
    /\ op = "acknowledge_alert"
    /\ ret = <<FALSE>>
    /\ arg = Len(alerts) + 1
    /\ \E i, j \in 1..Len(alerts) : alerts[i].acknowledged /\ ~alerts[j].acknowledged

----------------------------------------------------------------------------
(* SpecTickAck and SpecRace: check_metric as two steps, its query and its      *)
(* write/commit, so that acknowledgements and other calls can fall in between *)

\* thread w enters check_metric and runs it up to the query; a reading that
\* crosses nothing returns at once
Query(w) ==
    \E kv \in RaceReadings :
        LET k == kv[1]
            q == check_metric_query(k, kv[2], THRESHOLDS[k], higher_is_worse_of(k), alerts)
            busy == Cardinality({ x \in Workers : procs[x].pc = "found" })
        IN  /\ procs[w].pc = "idle"
            /\ clock + busy < MaxRaceClock
            /\ procs' = [ procs EXCEPT ![w] =
                            IF q.severity = None THEN IdleProc
                            ELSE [ pc |-> "found" ] @@ q ]
            /\ op' = "check_metric_query"
            /\ arg' = <<w, k, kv[2]>>
            /\ outcomes' = IF q.severity = None
                           THEN [ NoOutcomes EXCEPT ![k] =
                                    [ outcome |-> "NoChange", severity |-> None,
                                      id |-> 0, value |-> kv[2] ] ]
                           ELSE NoOutcomes
            /\ ret' = <<>>
            /\ UNCHANGED <<alerts, clock, written, trace>>
            /\ UNCHANGED sysvars

\* thread w writes and commits what its query decided
Write(w) ==
    LET q == procs[w]
        r == check_metric_write(q, alerts, clock)
        outs == [ NoOutcomes EXCEPT ![q.metric_type] = r.out ]
    IN  /\ q.pc = "found"
        /\ alerts' = r.alerts
        /\ clock' = r.clock
        /\ procs' = [ procs EXCEPT ![w] = IdleProc ]
        /\ op' = "check_metric_write"
        /\ arg' = <<w, q.metric_type, q.value>>
        /\ outcomes' = outs
        /\ ret' = r.returned
        /\ written' = Written(outs, written, Len(r.alerts))
        /\ UNCHANGED trace
        /\ UNCHANGED sysvars

TickQuery == Query("tick")

TickWrite == Write("tick")

ManualQuery == Query("manual")

ManualWrite == Write("manual")

\* the scheduler job's check_metric calls interleaved with acknowledge requests
NextTickAck ==
    \/ TickQuery
    \/ TickWrite
    \/ AcknowledgeAlert

SpecTickAck == Init /\ [][NextTickAck]_vars

\* two threads in check_metric, and acknowledge requests
NextRace ==
    \/ TickQuery
    \/ TickWrite
    \/ ManualQuery
    \/ ManualWrite
    \/ AcknowledgeAlert

SpecRace == Init /\ [][NextRace]_vars

\* C12 as stated: once an alert is acknowledged it stays acknowledged, none of
\* its other fields changes again and it is never deleted, whatever way the
\* tick's query and write interleave with acknowledge_alert requests.
C12_AcknowledgedIsTerminal ==
    [][ \A i \in 1..Len(alerts) :
          alerts[i].acknowledged =>
            /\ i <= Len(alerts')
            /\ alerts'[i] = alerts[i] ]_vars

\* C13: two overlapping check_metric calls for the same kind and crossed
\* severity that both ran their query while no unacknowledged alert of that
\* (kind, severity) existed each insert an alert: the write of a call whose
\* query found nothing always adds an unacknowledged row, also next to the row
\* the other call has inserted meanwhile.
C13_BothCallsCreate ==
    [][ \A w \in Workers :
          ( procs[w].pc = "found" /\ procs'[w].pc = "idle" /\ procs[w].existing = 0 )
          => /\ Len(alerts') = Len(alerts) + 1
             /\ alerts'[Len(alerts')].metric_type = procs[w].metric_type
             /\ alerts'[Len(alerts')].severity = procs[w].severity
             /\ alerts'[Len(alerts')].acknowledged = FALSE
             /\ Cardinality(Live(alerts', procs[w].metric_type, procs[w].severity))
                  = Cardinality(Live(alerts, procs[w].metric_type, procs[w].severity)) + 1 ]_vars

\* both calls have committed and two unacknowledged alerts of one kind and
\* severity exist
C13_Witness ==
    /\ \A w \in Workers : procs[w].pc = "idle"
    /\ op = "check_metric_write"
    /\ outcomes["cpu"].outcome = "Created"
    /\ Cardinality(Live(alerts, "cpu", outcomes["cpu"].severity)) = 2

----------------------------------------------------------------------------
(* SpecSystem: the application as wired.  The lifespan starts and stops the   *)
(* scheduler, the executor runs collect_and_save_metrics step by step, and    *)
(* API requests holding a get_db session run in between                       *)

\* the owner of the session a running instance of the job holds
TickSession(i) == <<"tick", i>>

\* the owner of the session Depends(get_db) gives a request
RequestSession == <<"request">>

\* instances of the job running in the executor
running_instances(insts) == { i \in DOMAIN insts : insts[i].pc # "idle" }

\* what the steps of SpecSystem leave alone of the serialized specifications
Untouched == UNCHANGED <<written, trace, procs>>

\* the statements inside the try block of collect_and_save_metrics
TryBlock == {"sample", "persist", "evaluate", "log"}

\* an instance after the step at inst.pc ended well (ok) or raised
Advance(inst, ok) ==
    LET to == next_pc(inst.pc, ok)
        outcome == IF ~ok \/ inst.pc = "except" THEN "error"
                   ELSE IF inst.pc = "log" THEN "ok" ELSE inst.outcome
    IN  IF to = "idle"
        THEN IdleInstance
        ELSE [ inst EXCEPT !.pc = to, !.outcome = outcome,
                           !.done = IF ok /\ inst.pc \in TryBlock
                                    THEN Append(@, inst.pc) ELSE @ ]

\* lifespan startup, or one more call of start_scheduler
StartScheduler ==
    /\ scheduler.shutdown = "no"
    /\ LET r == start_scheduler(scheduler)
       IN  /\ scheduler' = r.scheduler
           /\ op' = "start_scheduler"
           /\ arg' = <<>>
           /\ ret' = [ raised |-> r.raised ]
    /\ outcomes' = NoOutcomes
    /\ UNCHANGED <<alerts, clock, snapshots, instances, request, sessions>>
    /\ Untouched

\* lifespan shutdown: scheduler.shutdown() marks the scheduler stopped and
\* then waits for the executor
StopScheduler ==
    /\ scheduler.shutdown = "no"
    /\ scheduler.state = "running"
    /\ scheduler' = [ scheduler EXCEPT !.state = "stopped", !.shutdown = "waiting" ]
    /\ op' = "stop_scheduler"
    /\ arg' = <<>>
    /\ ret' = <<>>
    /\ outcomes' = NoOutcomes
    /\ UNCHANGED <<alerts, clock, snapshots, instances, request, sessions>>
    /\ Untouched

\* scheduler.shutdown() returns, stop_scheduler prints and returns
StopReturn ==
    /\ scheduler.shutdown = "waiting"
    /\ shutdown_complete(instances)
    /\ scheduler' = [ scheduler EXCEPT !.shutdown = "done" ]
    /\ op' = "stop_scheduler_return"
    /\ arg' = <<>>
    /\ ret' = [ raised |-> None ]
    /\ outcomes' = NoOutcomes
    /\ UNCHANGED <<alerts, clock, snapshots, instances, request, sessions>>
    /\ Untouched

\* the interval trigger comes due: the executor runs the job on a free thread
\* (the threads are interchangeable, the first free one is taken) unless
\* max_instances of it are running, and then the run is skipped
Submit ==
    /\ scheduler.state = "running"
    /\ \E j \in 1..Len(scheduler.jobs) : scheduler.jobs[j] = "metrics_collector"
    /\ IF can_submit(Cardinality(running_instances(instances)))
       THEN \E i \in Slots :
               /\ i = MinOf(Slots \ running_instances(instances))
               /\ instances' = [ instances EXCEPT ![i].pc = "begin" ]
               /\ op' = "submit"
               /\ arg' = [ slot |-> i ]
       ELSE /\ instances' = instances
            /\ op' = "skip"
            /\ arg' = <<>>
    /\ ret' = <<>>
    /\ outcomes' = NoOutcomes
    /\ UNCHANGED <<alerts, clock, snapshots, scheduler, request, sessions>>
    /\ Untouched

\* db = SessionLocal()
TickOpen(i) ==
    /\ instances[i].pc = "begin"
    /\ instances' = [ instances EXCEPT ![i] = Advance(@, TRUE) ]
    /\ sessions' = sessions \cup {TickSession(i)}
    /\ op' = "tick_open"
    /\ arg' = [ slot |-> i ]
    /\ ret' = <<>>
    /\ outcomes' = NoOutcomes
    /\ UNCHANGED <<alerts, clock, snapshots, scheduler, request>>
    /\ Untouched

\* metrics = get_all_metrics(), or the sampler raises
TickSample(i) ==
    /\ instances[i].pc = "sample"
    /\ \/ /\ clock < MaxSysClock
          /\ \E readings \in SysRecords :
                instances' = [ instances EXCEPT
                    ![i] = [ Advance(@, TRUE) EXCEPT
                               !.metrics = get_all_metrics(readings, clock) ] ]
          /\ clock' = clock + 1
          /\ ret' = <<>>
       \/ /\ instances' = [ instances EXCEPT ![i] = Advance(@, FALSE) ]
          /\ clock' = clock
          /\ ret' = [ raised |-> "Exception" ]
    /\ op' = "tick_sample"
    /\ arg' = [ slot |-> i ]
    /\ outcomes' = NoOutcomes
    /\ UNCHANGED <<alerts, snapshots, scheduler, request, sessions>>
    /\ Untouched

\* db.add(snapshot); db.commit(), or the commit raises and leaves the
\* transaction to be rolled back
TickPersist(i) ==
    /\ instances[i].pc = "persist"
    /\ \/ /\ instances' = [ instances EXCEPT ![i] = Advance(@, TRUE) ]
          /\ snapshots' = add_snapshot(snapshots, instances[i].metrics)
          /\ ret' = <<>>
       \/ /\ instances' = [ instances EXCEPT
                              ![i] = [ Advance(@, FALSE) EXCEPT !.txn = "pending" ] ]
          /\ snapshots' = snapshots
          /\ ret' = [ raised |-> "Exception" ]
    /\ op' = "tick_persist"
    /\ arg' = [ slot |-> i ]
    /\ outcomes' = NoOutcomes
    /\ UNCHANGED <<alerts, clock, scheduler, request, sessions>>
    /\ Untouched

\* new_alerts = check_and_create_alerts(metrics, db), or the store raises in
\* the check_metric call of one of the kinds
TickEvaluate(i) ==
    /\ instances[i].pc = "evaluate"
    /\ \/ LET r == check_and_create_alerts(instances[i].metrics, alerts, clock)
          IN  /\ r.clock <= MaxSysClock
              /\ instances' = [ instances EXCEPT ![i] = Advance(@, TRUE) ]
              /\ alerts' = r.alerts
              /\ clock' = r.clock
              /\ outcomes' = r.outs
              /\ ret' = [ new_alerts |-> r.new_alerts ]
       \/ \E at \in evaluated_kinds(instances[i].metrics) :
             LET r == check_and_create_alerts_failing(instances[i].metrics,
                                                      alerts, clock, at)
             IN  /\ r.clock <= MaxSysClock
                 /\ instances' = [ instances EXCEPT
                        ![i] = [ Advance(@, FALSE) EXCEPT !.txn = "pending" ] ]
                 /\ alerts' = r.alerts
                 /\ clock' = r.clock
                 /\ outcomes' = r.outs
                 /\ ret' = [ raised |-> "Exception" ]
    /\ op' = "tick_evaluate"
    /\ arg' = [ slot |-> i ]
    /\ UNCHANGED <<snapshots, scheduler, request, sessions>>
    /\ Untouched

\* the log line of a run that saved its snapshot; the time it prints is not
\* stored anywhere
TickLog(i) ==
    /\ instances[i].pc = "log"
    /\ instances' = [ instances EXCEPT ![i] = Advance(@, TRUE) ]
    /\ op' = "tick_log"
    /\ arg' = [ slot |-> i ]
    /\ ret' = <<>>
    /\ outcomes' = NoOutcomes
    /\ UNCHANGED <<alerts, clock, snapshots, scheduler, request, sessions>>
    /\ Untouched

\* except Exception: print the error, db.rollback()
TickExcept(i) ==
    /\ instances[i].pc = "except"
    /\ instances' = [ instances EXCEPT
                        ![i] = Advance([ @ EXCEPT !.txn = "none" ], TRUE) ]
    /\ op' = "tick_except"
    /\ arg' = [ slot |-> i ]
    /\ ret' = <<>>
    /\ outcomes' = NoOutcomes
    /\ UNCHANGED <<alerts, clock, snapshots, scheduler, request, sessions>>
    /\ Untouched

\* finally: db.close(), and the job function returns
TickClose(i) ==
    /\ instances[i].pc = "finally"
    /\ instances' = [ instances EXCEPT ![i] = Advance(@, TRUE) ]
    /\ sessions' = sessions \ {TickSession(i)}
    /\ op' = "tick_close"
    /\ arg' = [ slot |-> i, outcome |-> instances[i].outcome ]
    /\ ret' = <<>>
    /\ outcomes' = NoOutcomes
    /\ UNCHANGED <<alerts, clock, snapshots, scheduler, request>>
    /\ Untouched

\* a request arrives for a handler that depends on get_db: db = SessionLocal()
\* and the session is yielded to the handler
ReqOpen ==
    /\ request.pc = "idle"
    /\ \E handler \in Handlers :
            request' = [ IdleRequest EXCEPT !.pc = "handler", !.handler = handler ]
    /\ sessions' = sessions \cup {RequestSession}
    /\ op' = "get_db"
    /\ arg' = <<>>
    /\ ret' = <<>>
    /\ outcomes' = NoOutcomes
    /\ UNCHANGED <<alerts, clock, snapshots, scheduler, instances>>
    /\ Untouched

\* POST /metrics/snapshot
SaveSnapshot ==
    /\ request.pc = "handler"
    /\ request.handler = "save_snapshot"
    /\ clock < MaxSysClock
    /\ \E readings \in SysRecords :
          LET metrics == get_all_metrics(readings, clock)
              r == save_snapshot(metrics, snapshots, alerts, clock + 1)
          IN  /\ r.clock <= MaxSysClock
              /\ snapshots' = r.snapshots
              /\ alerts' = r.alerts
              /\ clock' = r.clock
              /\ outcomes' = r.outs
              /\ arg' = metrics
              /\ ret' = [ message |-> "Snapshot saved successfully",
                           snapshot |-> r.snapshots[Len(r.snapshots)] ]
    /\ request' = [ request EXCEPT !.pc = "finally", !.outcome = "ok" ]
    /\ op' = "save_snapshot"
    /\ UNCHANGED <<scheduler, instances, sessions>>
    /\ Untouched

\* GET /alerts, the value of "alerts" in the response: the first of the two
\* get_active_alerts(db) calls of the handler
ActiveAlertsQuery ==
    /\ request.pc = "handler"
    /\ request.handler = "active_alerts"
    /\ request' = [ request EXCEPT !.pc = "count", !.listed = get_active_alerts(alerts) ]
    /\ op' = "active_alerts_query"
    /\ arg' = [ handler |-> request.handler ]
    /\ ret' = <<>>
    /\ outcomes' = NoOutcomes
    /\ UNCHANGED <<alerts, clock, snapshots, scheduler, instances, sessions>>
    /\ Untouched

\* GET /alerts, the value of "count": the length of what a second
\* get_active_alerts(db) call returns; then the response is returned
ActiveAlerts ==
    /\ request.pc = "count"
    /\ request' = [ request EXCEPT !.pc = "finally", !.outcome = "ok", !.listed = <<>> ]
    /\ op' = "active_alerts"
    /\ arg' = [ handler |-> request.handler ]
    /\ ret' = [ alerts |-> request.listed,
                count |-> Len(get_active_alerts(alerts)) ]
    /\ outcomes' = NoOutcomes
    /\ UNCHANGED <<alerts, clock, snapshots, scheduler, instances, sessions>>
    /\ Untouched

\* POST /alerts/{alert_id}/acknowledge, for the ids in the table and one id
\* that is not there
AckAlert ==
    /\ request.pc = "handler"
    /\ request.handler = "ack_alert"
    /\ \E alert_id \in 1..(Len(alerts) + 1) :
          LET r == acknowledge_alert(alert_id, alerts)
          IN  /\ alerts' = r.alerts
              /\ arg' = [ alert_id |-> alert_id ]
              /\ ret' = IF r.returned
                        THEN [ message |-> "Alert acknowledged", alert_id |-> alert_id ]
                        ELSE [ error |-> "Alert not found", alert_id |-> alert_id ]
    /\ request' = [ request EXCEPT !.pc = "finally", !.outcome = "ok" ]
    /\ op' = "ack_alert"
    /\ outcomes' = NoOutcomes
    /\ UNCHANGED <<clock, snapshots, scheduler, instances, sessions>>
    /\ Untouched

\* the handler raises: the exception goes through get_db to the caller
ReqRaise ==
    /\ request.pc \in {"handler", "count"}
    /\ request' = [ request EXCEPT !.pc = "finally", !.outcome = "error", !.listed = <<>> ]
    /\ op' = "request_raise"
    /\ arg' = [ handler |-> request.handler ]
    /\ ret' = [ raised |-> "Exception" ]
    /\ outcomes' = NoOutcomes
    /\ UNCHANGED <<alerts, clock, snapshots, scheduler, instances, sessions>>
    /\ Untouched

\* get_db resumes after the handler: finally: db.close()
ReqClose ==
    /\ request.pc = "finally"
    /\ request' = IdleRequest
    /\ sessions' = sessions \ {RequestSession}
    /\ op' = "get_db_close"
    /\ arg' = [ handler |-> request.handler, outcome |-> request.outcome ]
    /\ ret' = <<>>
    /\ outcomes' = NoOutcomes
    /\ UNCHANGED <<alerts, clock, snapshots, scheduler, instances>>
    /\ Untouched

Tick ==
    \E i \in Slots :
        \/ TickOpen(i)
        \/ TickSample(i)
        \/ TickPersist(i)
        \/ TickEvaluate(i)
        \/ TickLog(i)
        \/ TickExcept(i)
        \/ TickClose(i)

Request ==
    \/ ReqOpen
    \/ SaveSnapshot
    \/ ActiveAlertsQuery
    \/ ActiveAlerts
    \/ AckAlert
    \/ ReqRaise
    \/ ReqClose

NextSystem ==
    \/ StartScheduler
    \/ StopScheduler
    \/ StopReturn
    \/ Submit
    \/ Tick
    \/ Request

SpecSystem == Init /\ [][NextSystem]_vars

\* the scheduler and its job alone, with no request in between
NextScheduler ==
    \/ StartScheduler
    \/ StopScheduler
    \/ StopReturn
    \/ Submit
    \/ Tick

\* the trigger keeps firing while the scheduler runs, a started run of the job
\* keeps executing, and shutdown() returns once it can
Fairness ==
    /\ WF_vars(Submit)
    /\ WF_vars(Tick)
    /\ WF_vars(StopReturn)

SpecScheduler == Init /\ [][NextScheduler]_vars /\ Fairness

----------------------------------------------------------------------------
(* Properties of SpecSystem *)

C15_StartIdempotent ==
    [][ op' = "start_scheduler" =>
          /\ scheduler'.jobs = <<"metrics_collector">>
          /\ scheduler'.state = "running"
          /\ ret' = [ raised |-> None ] ]_vars

\* a run of the job ends at this step: it leaves the executor thread
Ends(i) == instances[i].pc # "idle" /\ instances'[i].pc = "idle"

\* C16: once stop_scheduler has returned no run of collect_and_save_metrics
\* is in flight and none ever starts; a run in flight when stop_scheduler is
\* called is not cut short: it ends only through its finally clause, its
\* transaction committed or rolled back and its session closed, and it does
\* reach that end while stop_scheduler waits
C16_StopLetsTickFinish ==
    /\ [](scheduler.shutdown = "done" => running_instances(instances) = {})
    /\ [][ scheduler.shutdown = "done" =>
             /\ scheduler'.shutdown = "done"
             /\ running_instances(instances') = {} ]_vars
    /\ [][ scheduler.shutdown # "no" =>
             running_instances(instances') \subseteq running_instances(instances) ]_vars
    /\ [][ \A i \in Slots :
             Ends(i) => /\ instances[i].pc = "finally"
                        /\ instances[i].txn = "none"
                        /\ TickSession(i) \notin sessions' ]_vars
    /\ \A i \in Slots :
          (scheduler.shutdown = "waiting" /\ instances[i].pc # "idle")
             ~> (instances[i].pc = "idle")

\* stop_scheduler was called while a run of the job was in flight; the run
\* has just closed its session, and stop_scheduler has not returned before
C16_Witness ==
    /\ op = "tick_close"
    /\ scheduler.shutdown = "waiting"
    /\ running_instances(instances) = {}
    /\ \A i \in Slots : TickSession(i) \notin sessions

\* the step raised inside the try block of the job
Raises == /\ op' \in {"tick_sample", "tick_persist", "tick_evaluate"}
          /\ ret' = [ raised |-> "Exception" ]

\* C17: an error raised by the sampling, the snapshot commit or the alert
\* evaluation of a run of the job goes to the except clause and nowhere else;
\* the except clause rolls the session back, the finally clause closes it, and
\* none of this touches the scheduler; the failing run comes to its end, and
\* whenever the scheduler is running with no run in flight a run starts again
C17_TickErrorContained ==
    /\ [][ Raises => /\ instances'[arg'.slot].pc = "except"
                     /\ scheduler' = scheduler ]_vars
    /\ [][ op' = "tick_except" =>
             /\ instances'[arg'.slot].txn = "none"
             /\ instances'[arg'.slot].pc = "finally"
             /\ scheduler' = scheduler ]_vars
    /\ [][ op' = "tick_close" =>
             /\ instances[arg'.slot].txn = "none"
             /\ instances'[arg'.slot].pc = "idle"
             /\ TickSession(arg'.slot) \notin sessions'
             /\ scheduler' = scheduler ]_vars
    /\ \A i \in Slots : (instances[i].pc = "except") ~> (instances[i].pc = "idle")
    /\ (scheduler.state = "running" /\ running_instances(instances) = {})
          ~> (scheduler.state # "running" \/ running_instances(instances) # {})

\* a run of the job saved a snapshot with a critical cpu reading and failed in
\* the alert evaluation before any alert was committed; it has ended, the
\* scheduler is running and the next run has been started
C17_Witness ==
    /\ op = "submit"
    /\ scheduler.state = "running"
    /\ Len(snapshots) = 1
    /\ snapshots[1].cpu_usage_percent = 88
    /\ alerts = <<>>
    /\ sessions = {}

\* C18: at most one run of collect_and_save_metrics is active at any time
C18_TicksNeverOverlap == Cardinality(running_instances(instances)) <= 1

\* the trigger came due while a run of the job was active, and the run that
\* was due has been skipped
C18_Witness ==
    /\ op = "skip"
    /\ Cardinality(running_instances(instances)) = 1

\* the sessions that the runs of the job and the request in flight have opened
\* and not yet closed
SessionsInUse ==
    { TickSession(i) : i \in { j \in Slots : instances[j].pc \notin {"idle", "begin"} } }
        \cup (IF request.pc # "idle" THEN {RequestSession} ELSE {})

\* C19: the open sessions are exactly those of the runs of the job and of the
\* request that are in flight, one each; with no run and no request in flight
\* no session is open
C19_SessionsScopedPerOperation ==
    /\ sessions = SessionsInUse
    /\ (running_instances(instances) = {} /\ request.pc = "idle") => sessions = {}

\* a run of the job that failed has closed its session; no run and no request
\* is in flight and no session is open
C19_Witness ==
    /\ op = "tick_close"
    /\ arg.outcome = "error"
    /\ running_instances(instances) = {}
    /\ request.pc = "idle"
    /\ sessions = {}
    /\ Len(snapshots) >= 1

\* the rows of the snapshots table a run of the job has added: those stamped
\* with the time of its sample
SnapshotsOf(inst, snaps) ==
    { n \in 1..Len(snaps) : snaps[n].timestamp = inst.metrics.timestamp[2] }

\* the readings a snapshot row holds, as the alert engine reads them
RowReadings(row) ==
    Metrics(row.cpu_usage_percent, row.memory_usage_percent, row.disk_usage_percent,
            IF row.battery_percent = <<>> THEN <<>>
            ELSE Battery(row.battery_percent[1], row.battery_is_plugged[1]))

\* the step of the job returned without raising
Returns(name) == op' = name /\ ret' # [ raised |-> "Exception" ]

\* C21: in a run of the job the snapshot is committed after the sampling and
\* nothing else, the alerts are evaluated after the sampling and the commit,
\* on the readings of the snapshot row this run committed, the log line comes
\* after the evaluation, and a run that ends well has gone through the four
\* steps in that order and has added exactly one snapshot row
C21_TickStepsInOrder ==
    /\ [][ Returns("tick_persist") =>
             LET inst == instances[arg'.slot]
             IN  /\ inst.done = <<"sample">>
                 /\ Len(snapshots') = Len(snapshots) + 1
                 /\ SnapshotsOf(inst, snapshots') = {Len(snapshots')}
                 /\ RowReadings(snapshots'[Len(snapshots')])
                      = Metrics(inst.metrics.cpu, inst.metrics.memory,
                                inst.metrics.disk, inst.metrics.battery) ]_vars
    /\ [][ Returns("tick_evaluate") =>
             LET inst == instances[arg'.slot]
                 mine == SnapshotsOf(inst, snapshots)
             IN  /\ inst.done = <<"sample", "persist">>
                 /\ Cardinality(mine) = 1
                 /\ snapshots' = snapshots
                 /\ \A n \in mine :
                       LET r == check_and_create_alerts(RowReadings(snapshots[n]),
                                                        alerts, clock)
                       IN  /\ alerts' = r.alerts
                           /\ outcomes' = r.outs ]_vars
    /\ [][ Returns("tick_log") =>
             /\ instances[arg'.slot].done = <<"sample", "persist", "evaluate">>
             /\ snapshots' = snapshots
             /\ alerts' = alerts ]_vars
    /\ [][ (op' = "tick_close" /\ arg'.outcome = "ok") =>
             LET inst == instances[arg'.slot]
             IN  /\ inst.done = <<"sample", "persist", "evaluate", "log">>
                 /\ Cardinality(SnapshotsOf(inst, snapshots')) = 1 ]_vars

\* a run of the job has ended well; it saved a critical cpu reading and the
\* alert it created carries the value of the snapshot row
C21_Witness ==
    /\ op = "tick_close"
    /\ arg.outcome = "ok"
    /\ Len(alerts) = 1
    /\ \E n \in 1..Len(snapshots) :
          /\ snapshots[n].cpu_usage_percent = alerts[1].metric_value
          /\ snapshots[n].timestamp < alerts[1].timestamp

\* the rows an evaluation reports as Updated
UpdatedIds(outs) == { outs[k].id : k \in { j \in Kinds : outs[j].outcome = "Updated" } }

\* C22: an Updated outcome sets the metric_value of the one alert it names, an
\* unacknowledged alert of that kind and severity, to the reading and gives it
\* a later timestamp; every other column of that row, its message included,
\* stays as it was, and so does every row no Updated outcome names
C22_UpdateTouchesValueAndTimestampOnly ==
    [][ IsEvaluation(op') =>
          /\ \A k \in Kinds :
                outcomes'[k].outcome = "Updated" =>
                   LET n == outcomes'[k].id
                   IN  /\ n \in 1..Len(alerts)
                       /\ alerts[n].acknowledged = FALSE
                       /\ alerts[n].metric_type = k
                       /\ alerts[n].severity = outcomes'[k].severity
                       /\ alerts'[n].metric_value = outcomes'[k].value
                       /\ alerts'[n].timestamp > alerts[n].timestamp
                       /\ alerts'[n] = [ alerts[n] EXCEPT
                                           !.metric_value = alerts'[n].metric_value,
                                           !.timestamp = alerts'[n].timestamp ]
          /\ \A n \in (1..Len(alerts)) \ UpdatedIds(outcomes') :
                alerts'[n] = alerts[n] ]_vars

\* an alert created at one reading has been updated to another reading of the
\* same severity: its message still carries the reading it was created at
C22_Witness ==
    /\ op = "check_and_create_alerts"
    /\ outcomes["cpu"].outcome = "Updated"
    /\ alerts[outcomes["cpu"].id].metric_value = 78
    /\ alerts[outcomes["cpu"].id].message.value = 75

\* the order in which check_and_create_alerts goes through the kinds
KindOrder == <<"cpu", "memory", "disk", "battery">>

\* the kinds an evaluation reports as Created, in that order
CreatedKinds(outs) == SelectSeq(KindOrder, LAMBDA k : outs[k].outcome = "Created")

InBand(k, s, v) ==
    IF k = "battery"
    THEN IF s = "critical" THEN v <= THRESHOLDS[k].critical
         ELSE THRESHOLDS[k].critical < v /\ v <= THRESHOLDS[k].warning
    ELSE IF s = "critical" THEN v >= THRESHOLDS[k].critical
         ELSE THRESHOLDS[k].warning <= v /\ v < THRESHOLDS[k].critical

\* C24: every alert row, acknowledged or not, carries the threshold of its
\* kind and severity, and a metric_value inside the band of that severity
C24_RowsAgreeWithThresholds ==
    \A n \in 1..Len(alerts) :
        /\ alerts[n].metric_type \in Kinds
        /\ alerts[n].severity \in Severities
        /\ alerts[n].threshold_value = THRESHOLDS[alerts[n].metric_type][alerts[n].severity]
        /\ InBand(alerts[n].metric_type, alerts[n].severity, alerts[n].metric_value)

\* a warning cpu alert has been updated to another reading while a critical
\* cpu alert, acknowledged since, is in the table as well
C24_Witness ==
    /\ op = "check_and_create_alerts"
    /\ outcomes["cpu"].outcome = "Updated"
    /\ outcomes["cpu"].severity = "warning"
    /\ \E n \in 1..Len(alerts) :
          /\ alerts[n].metric_type = "cpu"
          /\ alerts[n].severity = "critical"
          /\ alerts[n].acknowledged

\* C26: the count of every GET /alerts response is the length of its list
C26_CountMatchesList ==
    op = "active_alerts" => ret.count = Len(ret.alerts)

----------------------------------------------------------------------------
(* SpecWired: the callers of the alerts table as the program has them.  The   *)
(* scheduler job is the one thread in check_metric, taken as its query and    *)
(* its write, and API requests are served in between                          *)

NextWired ==
    \/ TickQuery
    \/ TickWrite
    \/ Request

SpecWired == Init /\ [][NextWired]_vars

\* C25: with the scheduler job as the only caller of check_metric and the
\* requests POST /metrics/snapshot, GET /alerts and POST
\* /alerts/{id}/acknowledge served between its query and its write, no two
\* unacknowledged alert rows have the same metric_type and severity
C25_NoDuplicateLiveAlertAsWired ==
    \A i, j \in 1..Len(alerts) :
        (i # j /\ ~alerts[i].acknowledged /\ ~alerts[j].acknowledged)
            => <<alerts[i].metric_type, alerts[i].severity>>
                  # <<alerts[j].metric_type, alerts[j].severity>>

\* the job has created a critical cpu alert after an acknowledge request
\* retired the one before, POST /metrics/snapshot has saved a critical cpu
\* reading without touching the alerts, and a request is in flight
C25_Witness ==
    /\ op = "check_metric_write"
    /\ outcomes["cpu"].outcome = "Created"
    /\ outcomes["cpu"].severity = "critical"
    /\ request.pc # "idle"
    /\ Len(alerts) = 2
    /\ alerts[1].acknowledged
    /\ alerts[1].severity = "critical"
    /\ \E n \in 1..Len(snapshots) : snapshots[n].cpu_usage_percent = 88

\* the kinds check_and_create_alerts has gone through before kind k
KindsBefore(k) ==
    { KindOrder[j] : j \in { n \in 1..Len(KindOrder) :
                               \E x \in (n + 1)..Len(KindOrder) : KindOrder[x] = k } }

\* the kinds an evaluation has reported on
Evaluated(outs) == { k \in Kinds : outs[k].outcome # "NotEvaluated" }

\* the rows an evaluation reports as Created
CreatedIds(outs) == { outs[k].id : k \in { j \in Kinds : outs[j].outcome = "Created" } }

\* C27: when the alert evaluation of a run of the job raises at one kind, the
\* kinds before it have been evaluated as in a whole evaluation and what they
\* created or updated is in the table, the kinds from the failing one on are
\* not evaluated, and the snapshot row of the run is in the table; the
\* rollback and the close that follow change neither table
C27_FailedEvaluationKeepsCommits ==
    /\ [][ (op' = "tick_evaluate" /\ ret' = [ raised |-> "Exception" ]) =>
             LET inst == instances[arg'.slot]
                 full == check_and_create_alerts(inst.metrics, alerts, clock)
                 ev   == Evaluated(outcomes')
             IN  /\ \E at \in evaluated_kinds(inst.metrics) : ev = KindsBefore(at)
                 /\ \A k \in ev : outcomes'[k] = full.outs[k]
                 /\ Len(alerts') = Len(alerts) + Cardinality(CreatedIds(outcomes'))
                 /\ \A n \in CreatedIds(outcomes') \cup UpdatedIds(outcomes') :
                       alerts'[n] = full.alerts[n]
                 /\ \A n \in (1..Len(alerts)) \ UpdatedIds(outcomes') :
                       alerts'[n] = alerts[n]
                 /\ snapshots' = snapshots
                 /\ Cardinality(SnapshotsOf(inst, snapshots')) = 1
                 /\ instances'[arg'.slot].txn = "pending" ]_vars
    /\ [][ op' \in {"tick_except", "tick_close"} =>
             /\ alerts' = alerts
             /\ snapshots' = snapshots ]_vars

\* a run of the job failed in the evaluation of memory and has rolled back:
\* its snapshot row and the cpu alert it created before are in the tables
C27_Witness ==
    /\ op = "tick_except"
    /\ instances[arg.slot].pc = "finally"
    /\ instances[arg.slot].done = <<"sample", "persist">>
    /\ instances[arg.slot].txn = "none"
    /\ Cardinality(SnapshotsOf(instances[arg.slot], snapshots)) = 1
    /\ \E n \in 1..Len(alerts) :
          /\ alerts[n].metric_type = "cpu"
          /\ alerts[n].timestamp = instances[arg.slot].metrics.timestamp[2] + 1

====
